---- MODULE Spec2Model ----
\* A model of the KNMI weather integration (custom_components/knmi):
\* the Remote Client (api.py), the Refresh Coordinator (coordinator.py) and the
\* entry lifecycle (__init__.py).  Time is in seconds.
EXTENDS Integers, Sequences, FiniteSets, TLC

\* ---------------------------------------------------------------- bounds
\* The clock stops at MaxTime.
MaxTime == 700
\* async_setup_entry runs at most MaxSetups times (first setup, retries, reloads).
MaxSetups == 2
\* At most MaxRequests HTTP requests are issued.
MaxRequests == 3
\* uuid4 is drawn at most MaxUuids times.
MaxUuids == 2
\* Besides timer deadlines the clock visits the multiples of TickGrain.
TickGrain == 300

\* ------------------------------------------------------ program constants
\* timedelta(seconds=600) in _is_update_interval_passed
GATE_SECONDS == 600
\* const.DATA_REFRESH_INTERVAL
DATA_REFRESH_INTERVAL == 600
\* entry.options.get("refresh_interval", 300) in async_setup_entry
SETUP_REFRESH_INTERVAL == 300
\* random.randint(1, 60)
RANDOM_LOW == 1
RANDOM_HIGH == 60
\* const.API_TIMEOUT
API_TIMEOUT == 15

\* ------------------------------------------------------------ Python None
None == <<>>
Some(x) == <<x>>
Val(o) == o[1]

VARIABLES
    now,                  \* datetime.now(), seconds
    options,              \* entry.options: None or Some(refresh_interval)
    entry_state,          \* state of the config entry
    cur,                  \* number of coordinators built so far; cur is the one in hass.data[DOMAIN]
    last_update_time,     \* per coordinator: None or Some(seconds)
    data,                 \* per coordinator: self.data, None or Some([form, rec])
    refresh_interval,     \* per coordinator: self.refresh_interval
    update_interval,      \* per coordinator: seconds of the framework's update_interval
    last_update_success,  \* per coordinator: the framework's flag
    timers,               \* per coordinator: the pending refresh() tasks of _schedule_next_update
    unsub_refresh,        \* per coordinator: deadline of the framework's interval timer, or None
    inflight,             \* per coordinator: the HTTP requests awaiting their response
    notification_id,      \* per client (one per coordinator): the marker
    notifications,        \* hass.data["persistent_notification"]: the ids of the live notices
    uuids,                \* number of uuid4 values drawn
    http_requests,        \* number of HTTP requests issued (session.get calls)
    okAt,                 \* per coordinator: None or Some(time of its last successful refresh)
    ev,                   \* the last event (what the operation did)
    call                  \* the last direct call of the client: None or Some([resp, out])

vars == <<now, options, entry_state, cur, last_update_time, data, refresh_interval,
          update_interval, last_update_success, timers, unsub_refresh, inflight,
          notification_id, notifications, uuids, http_requests, okAt, ev, call>>

Gens == 1..MaxSetups

\* ================================================================ api.py
\* What the upstream may send.  A response is
\*   net     "ok", "timeout" (asyncio.TimeoutError) or "client_error" (aiohttp.ClientError,
\*           socket.gaierror)
\*   markers the error markers that occur as substrings of the body text
\*   ctype   "json" when Content-Type is application/json
\*   status  the HTTP status
\*   json    what json.loads(text) gives: "undecodable", "notdict", "nokey" (a dict without
\*           liveweer), "emptylist" (liveweer: []), "emptyrec" (liveweer: [{}]), "record"
\*   rec     the first record of liveweer when json = "record"
Markers == {"key", "quota", "server"}
JsonKinds == {"undecodable", "notdict", "nokey", "emptylist", "emptyrec", "record"}

\* The timestamp field of a record as JSON gives it.
TsInt(t) == [k |-> "int", v |-> t]
TsBad == [k |-> "bad", v |-> 0]
TsNull == [k |-> "null", v |-> 0]
TsNonScalar == [k |-> "nonscalar", v |-> 0]

\* A weather record: its timestamp field, whether it has exactly the fields of
\* WeatherData, and obs, which stands for its measurements.
Rec(ts, complete, obs) == [timestamp |-> ts, complete |-> complete, obs |-> obs]
NoRec == Rec(TsNull, FALSE, 0)

Resp(net, markers, ctype, status, json, rec) ==
    [net |-> net, markers |-> markers, ctype |-> ctype, status |-> status,
     json |-> json, rec |-> rec]

\* The result of a call: a returned value or a raised exception.
Return(v) == [kind |-> "return", exc |-> "", val |-> v]
Raise(e) == [kind |-> "raise", exc |-> e, val |-> None]

\* KnmiApiClient.notification_exists
notification_exists(marker, notes) ==
    /\ marker # None
    /\ Val(marker) \in notes

\* KnmiApiClient._handle_error_responses: the exception raised, "" when none.
\* Its side effect on the notice is in creates_notice.
handle_error_responses(markers) ==
    IF "key" \in markers THEN "InvalidApiKeyError"
    ELSE IF "quota" \in markers THEN "RequestsExceededError"
    ELSE IF "server" \in markers THEN "KnmiApiException"
    ELSE ""

\* Whether _handle_error_responses creates a notice: the quota branch is reached
\* and no notice of this client exists.
creates_notice(markers, marker, notes) ==
    /\ "key" \notin markers
    /\ "quota" \in markers
    /\ ~notification_exists(marker, notes)

\* Decoding the body whatever the status is.
parse_json_response_any_status(resp) ==
    IF resp.ctype # "json" THEN Raise("ApiError")
    ELSE IF resp.json = "undecodable" THEN Raise("ApiError")
    ELSE Return(Some(resp.json))

\* KnmiApiClient._parse_json_response: the parsed data, or the exception.
parse_json_response(resp) ==
    IF resp.ctype # "json" THEN Raise("ApiError")
    ELSE IF resp.status = 200 /\ "quota" \notin resp.markers
         THEN IF resp.json = "undecodable" THEN Raise("ApiError")
              ELSE Return(Some(resp.json))
         ELSE Return(None)

\* KnmiApiClient._api_wrapper, lines 60-74: from the parsed data to the record.
extract_liveweer(parsed, rec) ==
    IF parsed.kind = "raise" THEN parsed
    ELSE IF parsed.val = None \/ Val(parsed.val) \in {"notdict", "nokey"}
         THEN Raise("ApiError")
    ELSE IF Val(parsed.val) = "emptylist" THEN Raise("IndexError")
    ELSE IF Val(parsed.val) = "emptyrec" THEN Raise("ApiError")
    ELSE Return(Some(rec))

\* Parsing before the markers are looked at.
api_wrapper_parse_first(resp) ==
    IF resp.net = "timeout" THEN Return(None)
    ELSE IF resp.net = "client_error" THEN Return(None)
    ELSE IF parse_json_response(resp).kind = "raise" THEN parse_json_response(resp)
    ELSE IF handle_error_responses(resp.markers) # ""
         THEN Raise(handle_error_responses(resp.markers))
    ELSE extract_liveweer(parse_json_response(resp), resp.rec)

\* Logging RequestsExceededError without raising it again.
api_wrapper_swallowing(resp) ==
    IF resp.net = "timeout" THEN Return(None)
    ELSE IF resp.net = "client_error" THEN Return(None)
    ELSE IF handle_error_responses(resp.markers) = "RequestsExceededError"
         THEN Return(None)
    ELSE IF handle_error_responses(resp.markers) # ""
         THEN Raise(handle_error_responses(resp.markers))
    ELSE extract_liveweer(parse_json_response(resp), resp.rec)

\* KnmiApiClient._api_wrapper: what the call gives its caller.  A timeout and a
\* transport error are logged and the method falls off its end: it returns None.
api_wrapper(resp) ==
    IF resp.net = "timeout" THEN Return(None)
    ELSE IF resp.net = "client_error" THEN Return(None)
    ELSE IF handle_error_responses(resp.markers) # ""
         THEN Raise(handle_error_responses(resp.markers))
    ELSE extract_liveweer(parse_json_response(resp), resp.rec)

\* KnmiApiClient._handle_notification_dismissal is reached exactly when the
\* wrapper returns a record.
dismisses_notice(resp, marker, notes) ==
    /\ api_wrapper(resp).kind = "return"
    /\ api_wrapper(resp).val # None
    /\ notification_exists(marker, notes)

\* The marker and the live notices after the call.
marker_after(resp, marker, notes, fresh) ==
    IF resp.net = "ok" /\ creates_notice(resp.markers, marker, notes) THEN Some(fresh)
    ELSE IF dismisses_notice(resp, marker, notes) THEN None
    ELSE marker

notes_after(resp, marker, notes, fresh) ==
    IF resp.net = "ok" /\ creates_notice(resp.markers, marker, notes)
    THEN notes \cup {fresh}
    ELSE IF dismisses_notice(resp, marker, notes) THEN notes \ {Val(marker)}
    ELSE notes

uuids_after(resp, marker, notes, n) ==
    IF resp.net = "ok" /\ creates_notice(resp.markers, marker, notes) THEN n + 1 ELSE n


\* ========================================================== coordinator.py
\* KnmiDataUpdateCoordinator._get_refresh_interval: the option when it is set
\* (self.options is None, hass.data[DOMAIN] holds no interval), else the default.
get_refresh_interval(opts) ==
    IF opts # None THEN Val(opts) ELSE DATA_REFRESH_INTERVAL

\* async_setup_entry, lines 76-80: the interval the coordinator schedules with.
setup_refresh_interval(opts) ==
    LET given == IF opts # None THEN Val(opts) ELSE SETUP_REFRESH_INTERVAL
    IN  IF given # 0 THEN given ELSE get_refresh_interval(opts)

\* A gate that opens only after the 600 s, not at them.
is_update_interval_passed_strict(lut, t) ==
    IF lut = None THEN TRUE ELSE t > Val(lut) + GATE_SECONDS

\* KnmiDataUpdateCoordinator._is_update_interval_passed at time t
is_update_interval_passed(lut, t) ==
    IF lut = None THEN TRUE ELSE t >= Val(lut) + GATE_SECONDS

\* The condition of _async_update_data, lines 97-100
fetch_is_due(lut, t) ==
    lut = None \/ is_update_interval_passed(lut, t)

\* KnmiDataUpdateCoordinator._update_timestamp: int(timestamp) raises ValueError
\* for a string that is no number (caught: the current time is taken) and
\* TypeError for a value that is no string and no number (not caught).
update_timestamp_raises(rec) ==
    rec.timestamp.k = "nonscalar"

\* No fallback to the current time for a timestamp that is no number.
update_timestamp_no_fallback(rec, lut, t) ==
    IF rec.timestamp.k = "int" THEN Some(rec.timestamp.v) ELSE lut

update_timestamp(rec, lut, t) ==
    IF rec.timestamp.k = "null" THEN lut
    ELSE IF rec.timestamp.k = "int" THEN Some(rec.timestamp.v)
    ELSE IF rec.timestamp.k = "bad" THEN Some(t)
    ELSE lut

\* Arming also when the instant is the current time.
schedule_arms_not_past(lut, r, t) ==
    /\ lut # None
    /\ Val(lut) + r >= t

\* KnmiDataUpdateCoordinator._schedule_next_update: whether a refresh() task is
\* created, and when its sleep ends for the jitter j.
schedule_arms(lut, r, t) ==
    /\ lut # None
    /\ Val(lut) + r > t

schedule_deadline(lut, r, t, j) ==
    t + ((Val(lut) + r) - t) + j

\* The jitter drawn: the two ends of randint's range.
JitterChoices == {RANDOM_LOW, RANDOM_HIGH}

\* A pending refresh() task: when its sleep ends, the time of the fetch that
\* created it, and whether that fetch's record carried the fetch time as its
\* timestamp.
Timer(at, by, current) == [at |-> at, by |-> by, current |-> current]

\* An HTTP request awaiting its response: what asked for the refresh, and when.
Flight(trigger, start) == [trigger |-> trigger, start |-> start]

\* ------------------------------------------------------------------ events
\* kind: "request" (a refresh was asked for and _async_update_data ran),
\* "dropped" (async_request_refresh returned without a refresh), "response" (the
\* answer to an HTTP request of a refresh was handled), "forecast" (the forecast
\* was asked for, or answered), "dismiss"; g: the coordinator; trigger: what asked;
\* issued: a request that sent an HTTP request; markers, result: the error
\* markers of the response body and what the cycle ended with.
Ev(kind, g, trigger, issued, markers, result) ==
    [kind |-> kind, g |-> g, trigger |-> trigger, issued |-> issued,
     markers |-> markers, result |-> result]
NoEv == Ev("none", 0, "", FALSE, {}, "")

\* What a refresh cycle ends with, from the client's result.
cycle_result(resp) ==
    LET out == api_wrapper(resp)
    IN  IF out.kind = "raise" THEN out.exc
        ELSE IF out.val = None
             THEN IF resp.net = "timeout" THEN "Timeout" ELSE "TransportError"
        ELSE IF ~Val(out.val).complete THEN "RecordTypeError"
        ELSE IF update_timestamp_raises(Val(out.val)) THEN "TimestampTypeError"
        ELSE "ok"

\* ------------------------------------------------------------ environment
\* The refresh_interval option: unset, or a number of seconds.
OptionChoices == {None, Some(600)}
\* How far the timestamp of a record lies behind the time of the fetch.
TimestampLags == {0, 300}

MarkerFree(ctype, status, json, rec) == Resp("ok", {}, ctype, status, json, rec)

\* The responses a refresh cycle is answered with at time t: one per way a
\* cycle can end.
CycleResponses(t) ==
    {Resp("timeout", {}, "json", 200, "record", NoRec),
     Resp("client_error", {}, "json", 200, "record", NoRec),
     Resp("ok", {"key"}, "other", 200, "undecodable", NoRec),
     Resp("ok", {"quota"}, "other", 200, "undecodable", NoRec),
     Resp("ok", {"server"}, "other", 200, "undecodable", NoRec),
     MarkerFree("other", 200, "undecodable", NoRec),
     MarkerFree("json", 200, "emptylist", NoRec),
     MarkerFree("json", 200, "record", Rec(TsInt(t), FALSE, t)),
     MarkerFree("json", 200, "record", Rec(TsBad, TRUE, t)),
     MarkerFree("json", 200, "record", Rec(TsNull, TRUE, t)),
     MarkerFree("json", 200, "record", Rec(TsNonScalar, TRUE, t))}
    \cup {MarkerFree("json", 200, "record", Rec(TsInt(t - lag), TRUE, t)) :
            lag \in TimestampLags}

\* ------------------------------------------------------------------- Init
Init ==
    /\ now = 0
    /\ options \in OptionChoices
    /\ entry_state = "not_loaded"
    /\ cur = 0
    /\ last_update_time = [g \in Gens |-> None]
    /\ data = [g \in Gens |-> None]
    /\ refresh_interval = [g \in Gens |-> 0]
    /\ update_interval = [g \in Gens |-> 0]
    /\ last_update_success = [g \in Gens |-> TRUE]
    /\ timers = [g \in Gens |-> {}]
    /\ unsub_refresh = [g \in Gens |-> None]
    /\ inflight = [g \in Gens |-> {}]
    /\ notification_id = [g \in Gens |-> None]
    /\ notifications = {}
    /\ uuids = 0
    /\ http_requests = 0
    /\ okAt = [g \in Gens |-> None]
    /\ ev = NoEv
    /\ call = None


\* -------------------------------------------------------- the framework
\* The coordinator has listeners (entities) exactly while it is the one of a
\* loaded entry; only then does the framework arm its interval timer.
has_listeners(g) == g = cur /\ entry_state = "loaded"

\* The start of a refresh of coordinator g: _async_update_data up to the HTTP
\* request.  With the gate closed it returns self.data, which the framework
\* stores back as a successful update.
BeginRefresh(g, trigger) ==
    IF fetch_is_due(last_update_time[g], now)
    THEN /\ http_requests < MaxRequests
         /\ http_requests' = http_requests + 1
         /\ inflight' = [inflight EXCEPT ![g] = @ \cup {Flight(trigger, now)}]
         /\ unsub_refresh' = [unsub_refresh EXCEPT ![g] = None]
         /\ ev' = Ev("request", g, trigger, TRUE, {}, "pending")
         /\ UNCHANGED <<data, last_update_success>>
    ELSE /\ data' = [data EXCEPT ![g] = data[g]]
         /\ last_update_success' = [last_update_success EXCEPT ![g] = TRUE]
         /\ unsub_refresh' = [unsub_refresh EXCEPT ![g] =
                IF has_listeners(g) THEN Some(now + update_interval[g]) ELSE None]
         /\ ev' = Ev("request", g, trigger, FALSE, {}, "skipped")
         /\ UNCHANGED <<inflight, http_requests>>

\* async_setup_entry: a new client and a new coordinator, then the first refresh.
SetupEntry(g, opts) ==
    /\ cur' = g
    /\ entry_state' = "setup_in_progress"
    /\ notification_id' = [notification_id EXCEPT ![g] = None]
    /\ last_update_time' = [last_update_time EXCEPT ![g] = None]
    /\ data' = [data EXCEPT ![g] = None]
    /\ update_interval' = [update_interval EXCEPT ![g] = get_refresh_interval(opts)]
    /\ refresh_interval' = [refresh_interval EXCEPT ![g] = setup_refresh_interval(opts)]
    /\ http_requests < MaxRequests
    /\ http_requests' = http_requests + 1
    /\ inflight' = [inflight EXCEPT ![g] = {Flight("first", now)}]
    /\ ev' = Ev("request", g, "first", TRUE, {}, "pending")

\* The entry is set up: at start, or again after ConfigEntryNotReady.
AsyncSetupEntry ==
    /\ entry_state \in {"not_loaded", "setup_retry"}
    /\ cur < MaxSetups
    /\ SetupEntry(cur + 1, options)
    /\ UNCHANGED <<now, options, last_update_success, timers, unsub_refresh,
                   notifications, uuids, okAt, call>>

\* An options update: the update listener async_reload_entry unloads the entry
\* (the entities go, and with them the framework's interval timer) and sets it
\* up again.
AsyncReloadEntry(opts) ==
    /\ entry_state = "loaded"
    /\ cur < MaxSetups
    /\ options' = opts
    /\ unsub_refresh' = [unsub_refresh EXCEPT ![cur] = None]
    /\ SetupEntry(cur + 1, opts)
    /\ UNCHANGED <<now, last_update_success, timers, notifications, uuids, okAt, call>>

\* The framework's Debouncer behind async_request_refresh: while a refresh it
\* started is running, a further call returns at once.  (The interval timer
\* calls the refresh without it.)
debouncer_locked(g) == \E f \in inflight[g] : f.trigger \in {"manual", "timer"}

\* async_request_refresh of coordinator g, asked for by trigger.
AsyncRequestRefresh(g, trigger) ==
    IF debouncer_locked(g)
    THEN /\ ev' = Ev("dropped", g, trigger, FALSE, {}, "dropped")
         /\ UNCHANGED <<data, last_update_success, unsub_refresh, inflight,
                        http_requests>>
    ELSE BeginRefresh(g, trigger)

\* async_request_refresh from outside (an update service call, diagnostics).
RequestRefresh ==
    /\ entry_state = "loaded"
    /\ AsyncRequestRefresh(cur, "manual")
    /\ UNCHANGED <<now, options, entry_state, cur, last_update_time, refresh_interval,
                   update_interval, timers, notification_id, notifications, uuids,
                   okAt, call>>

\* The framework's interval timer of coordinator g fires.
IntervalFires(g) ==
    /\ unsub_refresh[g] # None
    /\ Val(unsub_refresh[g]) <= now
    /\ Flight("interval", now) \notin inflight[g]
    /\ BeginRefresh(g, "interval")
    /\ UNCHANGED <<now, options, entry_state, cur, last_update_time, refresh_interval,
                   update_interval, timers, notification_id, notifications, uuids,
                   okAt, call>>

\* The sleep of a refresh() task of coordinator g ends: async_request_refresh.
TimerFires(g, tm) ==
    /\ tm \in timers[g]
    /\ tm.at <= now
    /\ timers' = [timers EXCEPT ![g] = @ \ {tm}]
    /\ AsyncRequestRefresh(g, "timer")
    /\ UNCHANGED <<now, options, entry_state, cur, last_update_time, refresh_interval,
                   update_interval, notification_id, notifications, uuids, okAt, call>>

\* Dropping the Snapshot when the cycle fails.
data_after_clearing(d, resp) ==
    IF cycle_result(resp) = "ok"
    THEN Some([form |-> "dict", rec |-> Val(api_wrapper(resp).val)])
    ELSE None

\* _async_update_data, lines 101-120, for the response resp handled at time t:
\* self.data afterwards.  WeatherData(**data) raises TypeError for None and for
\* a record with other fields than the dataclass's; self.data is assigned before
\* _update_timestamp runs, and the framework stores the returned dict.
data_after(d, resp) ==
    IF cycle_result(resp) = "ok"
    THEN Some([form |-> "dict", rec |-> Val(api_wrapper(resp).val)])
    ELSE IF cycle_result(resp) = "TimestampTypeError"
         THEN Some([form |-> "WeatherData", rec |-> Val(api_wrapper(resp).val)])
    ELSE d

\* Stamping every cycle, also one that failed.
lut_after_every_cycle(lut, resp, t) ==
    IF cycle_result(resp) = "ok"
    THEN update_timestamp(Val(api_wrapper(resp).val), lut, t)
    ELSE Some(t)

\* last_update_time afterwards.
lut_after(lut, resp, t) ==
    IF cycle_result(resp) = "ok"
    THEN update_timestamp(Val(api_wrapper(resp).val), lut, t)
    ELSE lut

\* The pending refresh() tasks afterwards, for the jitter j.
timers_after(tms, lut, r, resp, t, j) ==
    IF cycle_result(resp) = "ok" /\ schedule_arms(lut_after(lut, resp, t), r, t)
    THEN tms \cup {Timer(schedule_deadline(lut_after(lut, resp, t), r, t, j), t,
                         Val(api_wrapper(resp).val).timestamp = TsInt(t))}
    ELSE tms

\* The framework's last_update_success afterwards: UpdateFailed clears it.
success_after(resp) == cycle_result(resp) = "ok"

\* The response to an HTTP request of coordinator g arrives: the rest of
\* _api_wrapper and of _async_update_data, and the framework's bookkeeping.
Respond(g, f, resp, j) ==
    LET first == f.trigger = "first"
        ok == success_after(resp)
    IN  /\ f \in inflight[g]
        /\ f.trigger # "forecast"
        /\ uuids_after(resp, notification_id[g], notifications, uuids) <= MaxUuids
        /\ inflight' = [inflight EXCEPT ![g] = @ \ {f}]
        /\ notification_id' = [notification_id EXCEPT ![g] =
                marker_after(resp, @, notifications, uuids + 1)]
        /\ notifications' = notes_after(resp, notification_id[g], notifications, uuids + 1)
        /\ uuids' = uuids_after(resp, notification_id[g], notifications, uuids)
        /\ data' = [data EXCEPT ![g] = data_after(@, resp)]
        /\ last_update_time' = [last_update_time EXCEPT ![g] = lut_after(@, resp, now)]
        /\ timers' = [timers EXCEPT ![g] =
                timers_after(@, last_update_time[g], refresh_interval[g], resp, now, j)]
        /\ last_update_success' = [last_update_success EXCEPT ![g] = ok]
        /\ okAt' = [okAt EXCEPT ![g] = IF ok THEN Some(now) ELSE @]
        /\ entry_state' = IF ~first THEN entry_state
                          ELSE IF ok THEN "loaded" ELSE "setup_retry"
        /\ unsub_refresh' = [unsub_refresh EXCEPT ![g] =
                IF (first /\ ok) \/ (~first /\ has_listeners(g))
                THEN Some(now + update_interval[g])
                ELSE @]
        /\ ev' = Ev("response", g, f.trigger, FALSE,
                    IF resp.net = "ok" THEN resp.markers ELSE {}, cycle_result(resp))
        /\ UNCHANGED <<now, options, cur, refresh_interval, update_interval,
                       http_requests, call>>

\* KnmiWeather.async_forecast_daily: the forecast accessor of the client sends
\* its own HTTP request, whatever the coordinator is doing.
AsyncForecastDaily ==
    /\ entry_state = "loaded"
    /\ Flight("forecast", now) \notin inflight[cur]
    /\ http_requests < MaxRequests
    /\ http_requests' = http_requests + 1
    /\ inflight' = [inflight EXCEPT ![cur] = @ \cup {Flight("forecast", now)}]
    /\ ev' = Ev("forecast", cur, "forecast", TRUE, {}, "pending")
    /\ UNCHANGED <<now, options, entry_state, cur, last_update_time, data,
                   refresh_interval, update_interval, last_update_success, timers,
                   unsub_refresh, notification_id, notifications, uuids, okAt, call>>

\* The answer to the request of the forecast accessor: nothing of the
\* coordinator changes (the body is not searched for markers).
ForecastResponds(g, f) ==
    /\ f \in inflight[g]
    /\ f.trigger = "forecast"
    /\ inflight' = [inflight EXCEPT ![g] = @ \ {f}]
    /\ ev' = Ev("forecast", g, "forecast", FALSE, {}, "answered")
    /\ UNCHANGED <<now, options, entry_state, cur, last_update_time, data,
                   refresh_interval, update_interval, last_update_success, timers,
                   unsub_refresh, notification_id, notifications, uuids,
                   http_requests, okAt, call>>

\* The user dismisses a live notice.
UserDismisses(n) ==
    /\ n \in notifications
    /\ notifications' = notifications \ {n}
    /\ ev' = Ev("dismiss", 0, "", FALSE, {}, "")
    /\ UNCHANGED <<now, options, entry_state, cur, last_update_time, data,
                   refresh_interval, update_interval, last_update_success, timers,
                   unsub_refresh, inflight, notification_id, uuids, http_requests,
                   okAt, call>>

\* The deadlines of the pending timers, and the ends of the pending requests.
Deadlines ==
    UNION {{tm.at : tm \in timers[g]} : g \in Gens}
    \cup {Val(unsub_refresh[g]) : g \in {h \in Gens : unsub_refresh[h] # None}}
Patience == UNION {{f.start + API_TIMEOUT : f \in inflight[g]} : g \in Gens}

TickTargets == Deadlines \cup {(now \div TickGrain + 1) * TickGrain}

\* Time passes: to the next multiple of TickGrain or to a deadline, and never
\* past a deadline (a due timer fires first) nor past the end of a request.
Tick(t) ==
    /\ t > now
    /\ t <= MaxTime
    /\ t \in TickTargets
    /\ \A d \in Deadlines \cup Patience : t <= d
    /\ now' = t
    /\ ev' = NoEv
    /\ UNCHANGED <<options, entry_state, cur, last_update_time, data, refresh_interval,
                   update_interval, last_update_success, timers, unsub_refresh, inflight,
                   notification_id, notifications, uuids, http_requests, okAt, call>>

Next ==
    \/ AsyncSetupEntry
    \/ \E opts \in OptionChoices : AsyncReloadEntry(opts)
    \/ RequestRefresh
    \/ \E g \in Gens : IntervalFires(g)
    \/ \E g \in Gens : \E tm \in timers[g] : TimerFires(g, tm)
    \/ \E g \in Gens : \E f \in inflight[g] : \E resp \in CycleResponses(now) :
            \E j \in JitterChoices : Respond(g, f, resp, j)
    \/ AsyncForecastDaily
    \/ \E g \in Gens : \E f \in inflight[g] : ForecastResponds(g, f)
    \/ \E n \in notifications : UserDismisses(n)
    \/ \E t \in TickTargets : Tick(t)

Spec == Init /\ [][Next]_vars


\* ------------------------------------------------- the client on its own
\* Every response the upstream may send (the record itself does not matter to
\* the client).
Responses ==
    {Resp("timeout", {}, "json", 200, "record", NoRec),
     Resp("client_error", {}, "json", 200, "record", NoRec)}
    \cup {Resp("ok", m, c, st, jk, IF jk = "record" THEN Rec(TsInt(0), TRUE, 0) ELSE NoRec) :
            m \in SUBSET Markers, c \in {"json", "other"}, st \in {200, 500},
            jk \in JsonKinds}

\* KnmiApiClient.async_get_data called directly on the first client.
AsyncGetData(resp) ==
    /\ uuids_after(resp, notification_id[1], notifications, uuids) <= MaxUuids
    /\ notification_id' = [notification_id EXCEPT ![1] =
            marker_after(resp, @, notifications, uuids + 1)]
    /\ notifications' = notes_after(resp, notification_id[1], notifications, uuids + 1)
    /\ uuids' = uuids_after(resp, notification_id[1], notifications, uuids)
    /\ call' = Some([resp |-> resp, out |-> api_wrapper(resp)])
    /\ UNCHANGED <<now, options, entry_state, cur, last_update_time, data,
                   refresh_interval, update_interval, last_update_success, timers,
                   unsub_refresh, inflight, http_requests, okAt, ev>>

NextClient ==
    \/ \E resp \in Responses : AsyncGetData(resp)
    \/ \E n \in notifications : UserDismisses(n)

SpecClient == Init /\ [][NextClient]_vars

\* ------------------------------------------------ config_flow.py: the setup
\* exceptions.py: the classes derived from KNMIError, none from another of them.
KNMIErrors ==
    {"ApiError", "InvalidApiKeyError", "InvalidCoordinatesError",
     "RequestsExceededError", "KnmiApiException", "KnmiApiClientApiKeyError",
     "KnmiApiClientCommunicationError", "KnmiApiRateLimitError"}

\* Whether an except clause for the class cls catches the exception exc.
is_instance(exc, cls) ==
    \/ exc = cls
    \/ cls = "KNMIError" /\ exc \in KNMIErrors

\* What a step of the flow gives: type "create_entry", "form", or "none" when
\* the method falls off its end; errors is self._errors["base"], "" when unset.
FlowResult(type, errors) == [type |-> type, errors |-> errors]

\* The except clauses of async_step_user, for an exception of the test fetch:
\* the form error, "" when no clause catches it.
step_user_error(exc) ==
    IF is_instance(exc, "KnmiApiClientCommunicationError") THEN "general"
    ELSE IF is_instance(exc, "KnmiApiClientApiKeyError") THEN "api_key"
    ELSE IF is_instance(exc, "KnmiApiRateLimitError") THEN "daily_limit"
    ELSE ""

\* KNMIWeatherFlowHandler.async_step_user with user input, the test fetch
\* being answered with resp.  _validate_user_input returns True whatever
\* async_get_data returns, also None; after a caught exception the method
\* falls off its end.
async_step_user(resp) ==
    IF api_wrapper(resp).kind = "return"
    THEN Return(Some(FlowResult("create_entry", "")))
    ELSE IF step_user_error(api_wrapper(resp).exc) # ""
    THEN Return(Some(FlowResult("none", step_user_error(api_wrapper(resp).exc))))
    ELSE Raise(api_wrapper(resp).exc)

\* The operator submits the setup form; the test fetch is answered with resp.
\* The test client is a new one (no marker), and holds hass: a quota body
\* creates a notice.
AsyncStepUser(resp) ==
    /\ uuids_after(resp, None, notifications, uuids) <= MaxUuids
    /\ notifications' = notes_after(resp, None, notifications, uuids + 1)
    /\ uuids' = uuids_after(resp, None, notifications, uuids)
    /\ call' = Some([op |-> "async_step_user", resp |-> resp,
                     out |-> async_step_user(resp)])
    /\ UNCHANGED <<now, options, entry_state, cur, last_update_time, data,
                   refresh_interval, update_interval, last_update_success, timers,
                   unsub_refresh, inflight, notification_id, http_requests, okAt, ev>>

\* The flow is opened: the form is shown with its defaults.
ShowForm ==
    /\ call' = Some([op |-> "show_form", resp |-> Resp("ok", {}, "json", 200, "record", NoRec),
                     out |-> Return(Some(FlowResult("form", "")))])
    /\ UNCHANGED <<now, options, entry_state, cur, last_update_time, data,
                   refresh_interval, update_interval, last_update_success, timers,
                   unsub_refresh, inflight, notification_id, notifications, uuids,
                   http_requests, okAt, ev>>

NextConfigFlow ==
    \/ \E resp \in Responses : AsyncStepUser(resp)
    \/ ShowForm
    \/ \E n \in notifications : UserDismisses(n)

SpecConfigFlow == Init /\ [][NextConfigFlow]_vars

\* ------------------------------------------------ the forecast of the client
\* What the top-level key forecast of a decoded mapping holds.
ForecastKinds == {"absent", "list", "nonlist"}

\* A value the forecast call returns: whether it is a list, and whether it is
\* the value at the key or the default of data.get("forecast", []).
Forecast(list, from) == [list |-> list, from |-> from]

\* KnmiApiClient.async_fetch_daily_forecast_data for the response resp whose
\* mapping holds fc at the key forecast.  asyncio.TimeoutError is not caught;
\* aiohttp.ClientError, also the one raise_for_status raises for a status from
\* 400 on, becomes KnmiApiException; the body is not searched for the markers;
\* ApiError of the parser is not caught; for data None the method falls off its
\* end and returns None; a decoded value that is no mapping has no get().
fetch_daily_forecast_data(resp, fc) ==
    IF resp.net = "timeout" THEN Raise("TimeoutError")
    ELSE IF resp.net = "client_error" THEN Raise("KnmiApiException")
    ELSE IF resp.status >= 400 THEN Raise("KnmiApiException")
    ELSE IF parse_json_response(resp).kind = "raise" THEN parse_json_response(resp)
    ELSE IF parse_json_response(resp).val = None THEN Return(None)
    ELSE IF Val(parse_json_response(resp).val) = "notdict" THEN Raise("AttributeError")
    ELSE IF fc = "absent" THEN Return(Some(Forecast(TRUE, "default")))
    ELSE Return(Some(Forecast(fc = "list", "forecast")))

\* Every response the upstream may send to the forecast request.
ForecastResponses ==
    {Resp("timeout", {}, "json", 200, "record", NoRec),
     Resp("client_error", {}, "json", 200, "record", NoRec)}
    \cup {Resp("ok", m, c, st, jk, NoRec) :
            m \in SUBSET Markers, c \in {"json", "other"}, st \in {200, 204, 500},
            jk \in JsonKinds}

\* KnmiApiClient.async_fetch_daily_forecast_data called on the first client.
AsyncFetchDailyForecastData(resp, fc) ==
    /\ call' = Some([resp |-> resp, fc |-> fc, out |-> fetch_daily_forecast_data(resp, fc)])
    /\ UNCHANGED <<now, options, entry_state, cur, last_update_time, data,
                   refresh_interval, update_interval, last_update_success, timers,
                   unsub_refresh, inflight, notification_id, notifications, uuids,
                   http_requests, okAt, ev>>

NextForecast ==
    \E resp \in ForecastResponses : \E fc \in ForecastKinds :
        AsyncFetchDailyForecastData(resp, fc)

SpecForecast == Init /\ [][NextForecast]_vars

\* ============================================================ the readers
\* A Python value as the readers meet it.  The fields of a Snapshot come from
\* JSON: "absent" (no such key), "null", a string that is an integer literal
\* ("intstr", a), a string with a decimal point ("decstr", a in tenths, so 181 is
\* "18.1"), a string lo/hi of two integer literals ("range", a and b), another
\* string with a slash ("badrange"), another string ("text") or a JSON number
\* ("number", a).  What the readers compute: an int ("int", a), a float
\* ("float", a in tenths), the str() of a value ("str", the value in a, b and
\* s), a bool ("bool", a), a label of a table ("label", s), the record of a
\* Beaufort force ("windrecord", a), a formatted time ("timetext", a) and a
\* dict of attributes ("attributes": its Timestamp in a, its Waarschuwing in s).
PyVal(k, a, b, s) == [k |-> k, a |-> a, b |-> b, s |-> s]
Absent == PyVal("absent", 0, 0, "")
Null == PyVal("null", 0, 0, "")
IntStr(n) == PyVal("intstr", n, 0, "")
DecStr(h) == PyVal("decstr", h, 0, "")
RangeStr(lo, hi) == PyVal("range", lo, hi, "")
BadRange == PyVal("badrange", 0, 0, "")
Text == PyVal("text", 0, 0, "")
Number(n) == PyVal("number", n, 0, "")
PyInt(n) == PyVal("int", n, 0, "")
PyFloat(h) == PyVal("float", h, 0, "")
PyBool(t) == PyVal("bool", IF t THEN 1 ELSE 0, 0, "")
StrOf(x) == PyVal("str", x.a, x.b, x.k)
Label(s) == PyVal("label", 0, 0, s)

\* int() of a float given in tenths: towards zero.
int_of_float(h) == IF h >= 0 THEN h \div 10 ELSE -((-h) \div 10)

\* int(x), float(x) and str(x) of a value: ValueError for a string that is no
\* such literal, TypeError for None.
py_int(x) ==
    IF x.k = "null" THEN Raise("TypeError")
    ELSE IF x.k \in {"intstr", "number", "int"} THEN Return(Some(PyInt(x.a)))
    ELSE IF x.k = "float" THEN Return(Some(PyInt(int_of_float(x.a))))
    ELSE Raise("ValueError")

py_float(x) ==
    IF x.k = "null" THEN Raise("TypeError")
    ELSE IF x.k \in {"intstr", "number", "int"} THEN Return(Some(PyFloat(10 * x.a)))
    ELSE IF x.k \in {"decstr", "float"} THEN Return(Some(PyFloat(x.a)))
    ELSE Raise("ValueError")

py_str(x) == Return(Some(StrOf(x)))

\* convert_to(x) for the converters the readers pass.
Converters == {"int", "float", "str"}
convert_to(c, x) ==
    IF c = "int" THEN py_int(x)
    ELSE IF c = "float" THEN py_float(x)
    ELSE py_str(x)

\* The keys of a Snapshot the readers look at.
RangeKeys == {"d1tmin", "d1tmax", "d2tmin", "d2tmax"}
Keys ==
    RangeKeys \cup
    {"d0tmin", "temp", "alarm", "alarmtxt", "timestamp", "winds", "luchtd", "lv",
     "zicht", "sup", "sunder", "d0zon", "plaats", "windr", "windrgr", "d1windr",
     "d1windrgr"}

\* coordinator.data as the readers meet it: None before the first Snapshot, the
\* dict of the record, or the WeatherData object a cycle left behind that failed
\* in _update_timestamp.
Forms == {"None", "dict", "WeatherData"}
SnapshotOf(form, fields) == [form |-> form, fields |-> fields]
Fields1(key, v) == [k \in Keys |-> IF k = key THEN v ELSE Absent]
Fields2(k1, v1, k2, v2) ==
    [k \in Keys |-> IF k = k1 THEN v1 ELSE IF k = k2 THEN v2 ELSE Absent]

\* The half sum taken with floor division.
midpoint_floor(lo, hi) == PyFloat(10 * ((lo + hi) \div 2))

\* (numerator + denominator) / 2 of get_value, a float (in tenths)
midpoint(lo, hi) == PyFloat(5 * (lo + hi))

\* except ValueError of get_value: a warning and None.
except_value_error(out) ==
    IF out.kind = "raise" /\ out.exc = "ValueError" THEN Return(None) ELSE out

\* KnmiDataUpdateCoordinator.get_value.  "key in self.data" raises TypeError for
\* None and for a WeatherData object; "/" in value raises TypeError for a value
\* that is no string; only ValueError is caught.
get_value(d, key, c) ==
    IF d.form # "dict" THEN Raise("TypeError")
    ELSE IF d.fields[key].k = "absent" THEN Return(None)
    ELSE IF key \in RangeKeys /\ d.fields[key].k \in {"null", "number"}
         THEN Raise("TypeError")
    ELSE IF key \in RangeKeys /\ d.fields[key].k = "range"
         THEN except_value_error(convert_to(c, midpoint(d.fields[key].a, d.fields[key].b)))
    ELSE IF key \in RangeKeys /\ d.fields[key].k = "badrange"
         THEN Return(None)
    ELSE except_value_error(convert_to(c, d.fields[key]))

\* ------------------------------------------------ const.py: the range tables
\* A band of a table: its range, its short_description and, for the pressure,
\* its barometer word.  The tables are in the order of their dicts.
Band(lo, hi, label, barometer) ==
    [lo |-> lo, hi |-> hi, label |-> label, barometer |-> barometer]

TEMPERATURE_MAP ==
    <<Band(-30, -20, "Extreem koud", ""), Band(-20, -10, "Zeer koud", ""),
      Band(-10, 0, "Erg koud", ""), Band(0, 10, "Koud", ""),
      Band(5, 10, "Koel tot milde kou", ""), Band(10, 15, "Fris", ""),
      Band(15, 20, "Aangenaam", ""), Band(20, 25, "Warm", ""),
      Band(25, 30, "Warm tot heet", ""), Band(30, 35, "Heet", ""),
      Band(35, 40, "Erg heet", ""), Band(40, 50, "Zeer heet", ""),
      Band(50, 100, "Extreem heet", "")>>

AIR_PRESSURE_MAP ==
    <<Band(900, 940, "Extreem laag", "Orkaan"),
      Band(940, 970, "Zeer laag", "Stormachtig"),
      Band(970, 990, "Laag", "Regenachtig"),
      Band(990, 1010, "Matig laag", "Veranderlijk"),
      Band(1010, 1030, "Stabiel", "Mooi weer"),
      Band(1030, 1050, "Hoog", "Droog"),
      Band(1050, 1100, "Zeer hoog", "Zeer droog"),
      Band(1100, 1200, "Extreem hoog", "Uitzonderlijk droog")>>

HUMIDITY_MAP ==
    <<Band(0, 10, "Zeer laag", ""), Band(10, 30, "Erg laag", ""),
      Band(30, 40, "Laag", ""), Band(40, 60, "Comfortabel", ""),
      Band(60, 70, "Hoog", ""), Band(70, 90, "Erg hoog", ""),
      Band(90, 100, "Zeer hoog", "")>>

VISIBILITY_MAP ==
    <<Band(0, 1, "Zeer slecht", ""), Band(1, 3, "Slecht", ""),
      Band(3, 5, "Matig", ""), Band(5, 10, "Goed", ""),
      Band(10, 50, "Zeer goed", "")>>

\* WIND_FORCE_MAP: the benaming of the forces 0..12, at index force + 1.
WIND_FORCE_MAP ==
    <<"Stil", "Zwak", "Zwak", "Matig", "Matig", "Vrij krachtig", "Krachtig", "Hard",
      "Stormachtig", "Storm", "Zware storm", "Zeer zware storm", "Orkaan">>

\* ------------------------------------------------- entity.py: the lookups
\* The last band that passes the test instead of the first.
last_band(table, matches) ==
    IF matches = {} THEN None
    ELSE Some(table[CHOOSE i \in matches : \A j \in matches : i >= j])

\* The loop "for band in table: if <test>: return": the first band in the
\* order of the table that passes the test, None when the loop ends.
first_band(table, matches) ==
    IF matches = {} THEN None
    ELSE Some(table[CHOOSE i \in matches : \A j \in matches : i <= j])

\* range[0] <= v <= range[1]
closed_matches(table, v) ==
    {i \in DOMAIN table : table[i].lo <= v /\ v <= table[i].hi}

\* range[0] <= v < range[1]
half_open_matches(table, v) ==
    {i \in DOMAIN table : table[i].lo <= v /\ v < table[i].hi}

label_of(band) == IF band = None THEN None ELSE Some(Label(Val(band).label))
barometer_of(band) == IF band = None THEN None ELSE Some(Label(Val(band).barometer))

\* KnmiEntity.get_temperature_description(temperature), the float in tenths
get_temperature_description(h) ==
    label_of(first_band(TEMPERATURE_MAP, closed_matches(TEMPERATURE_MAP, int_of_float(h))))

\* KnmiEntity.get_windforce_description(windforce): WIND_FORCE_MAP.get
get_windforce_description(n) ==
    IF n \in 0..12 THEN Some(PyVal("windrecord", n, 0, WIND_FORCE_MAP[n + 1])) ELSE None

\* KnmiEntity.get_air_pressure_description(air_pressure), the float in tenths
get_air_pressure_description(h) ==
    label_of(first_band(AIR_PRESSURE_MAP, closed_matches(AIR_PRESSURE_MAP, int_of_float(h))))

\* KnmiEntity.get_air_pressure_barometer(air_pressure), the float in tenths
get_air_pressure_barometer(h) ==
    barometer_of(first_band(AIR_PRESSURE_MAP, closed_matches(AIR_PRESSURE_MAP, int_of_float(h))))

\* The humidity test with the upper end of the range included.
get_humidity_description_closed(humidity) ==
    label_of(first_band(HUMIDITY_MAP, closed_matches(HUMIDITY_MAP, humidity)))

\* KnmiEntity.get_humidity_description(humidity)
get_humidity_description(humidity) ==
    label_of(first_band(HUMIDITY_MAP, half_open_matches(HUMIDITY_MAP, humidity)))

\* KnmiEntity.get_visibility_description(visibility)
get_visibility_description(visibility) ==
    label_of(first_band(VISIBILITY_MAP, half_open_matches(VISIBILITY_MAP, visibility)))

\* The arguments the lookups are called with: one beyond each end of the
\* tables; temperature and pressure in tenths.
TemperatureArgs == (10 * (-31))..(10 * 101)
PressureArgs == (10 * 899)..(10 * 1201)
HumidityArgs == (-1)..101
VisibilityArgs == (-1)..51
WindforceArgs == (-1)..13

\* ----------------------------------------- entity.py, binary_sensor.py
\* A string hh:mm, as the fields sup and sunder hold it.
Clock == PyVal("clock", 0, 0, "")

Fields3(k1, v1, k2, v2, k3, v3) ==
    [k \in Keys |-> IF k = k1 THEN v1 ELSE IF k = k2 THEN v2
                    ELSE IF k = k3 THEN v3 ELSE Absent]

\* data.get(key): None for an absent key and for a null field.
dict_get(d, key) ==
    IF key \notin Keys \/ d.fields[key].k \in {"absent", "null"} THEN None
    ELSE Some(d.fields[key])

\* The field a derived key of get_data is computed from.
source_key(key) ==
    IF key = "winddesc" THEN "winds"
    ELSE IF key = "tempdesc" THEN "temp"
    ELSE IF key \in {"air_pressure_desc", "air_pressure_barometer"} THEN "luchtd"
    ELSE IF key = "lvdesc" THEN "lv"
    ELSE IF key = "zichtdesc" THEN "zicht"
    ELSE key

\* KnmiEntity.get_data, lines 45-82: the part after the timestamp.  int() and
\* float() of the field are not guarded.
get_data_of_key(d, key) ==
    LET src == dict_get(d, source_key(key))
    IN  IF key = "winddesc" /\ src # None /\ py_int(Val(src)).kind = "raise"
        THEN py_int(Val(src))
        ELSE IF key = "winddesc" /\ src # None
                /\ get_windforce_description(Val(py_int(Val(src)).val).a) # None
        THEN Return(Some(Label(
                Val(get_windforce_description(Val(py_int(Val(src)).val).a)).s)))
        ELSE IF key \in {"tempdesc", "air_pressure_desc", "air_pressure_barometer"}
                /\ src # None /\ py_float(Val(src)).kind = "raise"
        THEN py_float(Val(src))
        ELSE IF key = "tempdesc" /\ src # None
        THEN Return(get_temperature_description(Val(py_float(Val(src)).val).a))
        ELSE IF key = "air_pressure_desc" /\ src # None
        THEN Return(get_air_pressure_description(Val(py_float(Val(src)).val).a))
        ELSE IF key = "air_pressure_barometer" /\ src # None
        THEN Return(get_air_pressure_barometer(Val(py_float(Val(src)).val).a))
        ELSE IF key \in {"lvdesc", "zichtdesc", "timestamp"}
                /\ src # None /\ py_int(Val(src)).kind = "raise"
        THEN py_int(Val(src))
        ELSE IF key = "lvdesc" /\ src # None
        THEN Return(get_humidity_description(Val(py_int(Val(src)).val).a))
        ELSE IF key = "zichtdesc" /\ src # None
        THEN Return(get_visibility_description(Val(py_int(Val(src)).val).a))
        ELSE IF key = "timestamp" /\ src # None
        THEN Return(Some(PyVal("timetext", Val(py_int(Val(src)).val).a, 0, "")))
        ELSE Return(dict_get(d, key))

\* KnmiEntity.get_data.  None while there is no data; a WeatherData object has
\* no get(); int(timestamp) is evaluated for every key and is not guarded.
get_data(d, key) ==
    IF d.form = "None" THEN Return(None)
    ELSE IF d.form = "WeatherData" THEN Raise("AttributeError")
    ELSE IF dict_get(d, "timestamp") # None
            /\ py_int(Val(dict_get(d, "timestamp"))).kind = "raise"
         THEN py_int(Val(dict_get(d, "timestamp")))
    ELSE get_data_of_key(d, key)

\* The alarm read without the converter int: a string never equals 1.
is_alarm_on_unconverted(d) ==
    IF get_value(d, "alarm", "str").kind = "raise" THEN get_value(d, "alarm", "str")
    ELSE Return(Some(PyBool(FALSE)))

\* binary_sensor.is_alarm_on
is_alarm_on(d) ==
    IF get_value(d, "alarm", "int").kind = "raise" THEN get_value(d, "alarm", "int")
    ELSE Return(Some(PyBool(get_value(d, "alarm", "int") = Return(Some(PyInt(1))))))

\* binary_sensor._time_as_datetime(time) for a string given as str() made it:
\* split(":") and int() of the two parts, ValueError for anything but hh:mm.
time_as_datetime_raises(x) == ~(x.k = "str" /\ x.s = "clock")

\* binary_sensor.is_sun_up; up says whether now lies between sunrise and sunset.
is_sun_up(d, up) ==
    LET sup == get_value(d, "sup", "str")
        sunder == get_value(d, "sunder", "str")
    IN  IF sup.kind = "raise" THEN sup
        ELSE IF sunder.kind = "raise" THEN sunder
        ELSE IF sup.val = None \/ sunder.val = None THEN Return(None)
        ELSE IF time_as_datetime_raises(Val(sup.val)) THEN Raise("ValueError")
        ELSE IF time_as_datetime_raises(Val(sunder.val)) THEN Raise("ValueError")
        ELSE Return(Some(PyBool(up)))

\* int(x) for what get_value(key) with the converter str gave: x is None or the
\* str() of a field.
int_of_str(x) ==
    IF x = None THEN Raise("TypeError")
    ELSE IF Val(x).s \in {"intstr", "number"} THEN Return(Some(PyInt(Val(x).a)))
    ELSE Raise("ValueError")

\* binary_sensor.get_alarm_attributes
get_alarm_attributes(d) ==
    IF is_alarm_on(d).kind = "raise" THEN is_alarm_on(d)
    ELSE IF is_alarm_on(d) # Return(Some(PyBool(TRUE))) THEN Return(None)
    ELSE IF get_value(d, "timestamp", "str").kind = "raise"
         THEN get_value(d, "timestamp", "str")
    ELSE IF int_of_str(get_value(d, "timestamp", "str").val).kind = "raise"
         THEN int_of_str(get_value(d, "timestamp", "str").val)
    ELSE IF get_value(d, "alarmtxt", "str").kind = "raise"
         THEN get_value(d, "alarmtxt", "str")
    ELSE Return(Some(PyVal("attributes",
                           Val(int_of_str(get_value(d, "timestamp", "str").val).val).a, 0,
                           IF get_value(d, "alarmtxt", "str").val = None THEN ""
                           ELSE d.fields["alarmtxt"].s)))

\* binary_sensor.get_sun_attributes (d1zon and d2zon are read as d0zon is)
get_sun_attributes(d) ==
    LET sup == get_value(d, "sup", "str")
        sunder == get_value(d, "sunder", "str")
        d0zon == get_value(d, "d0zon", "int")
    IN  IF sup.kind = "raise" THEN sup
        ELSE IF sunder.kind = "raise" THEN sunder
        ELSE IF d0zon.kind = "raise" THEN d0zon
        ELSE IF sup.val # None /\ time_as_datetime_raises(Val(sup.val))
             THEN Raise("ValueError")
        ELSE IF sunder.val # None /\ time_as_datetime_raises(Val(sunder.val))
             THEN Raise("ValueError")
        ELSE Return(Some(PyVal("attributes", 0, 0, "sun")))

\* What a field may hold when the readers of the entities are called.
ReaderValues ==
    {Absent, Null, Text, Clock, IntStr(1), IntStr(18), DecStr(175), Number(1)}
\* The keys the sensors call get_data with: the derived ones, timestamp and a
\* plain one.
DataKeys ==
    {"winddesc", "tempdesc", "air_pressure_desc", "lvdesc", "air_pressure_barometer",
     "zichtdesc", "timestamp", "plaats"}

\* ------------------------------------------------ sensor.py: the wind icon
\* WIND_DIRECTIONS_ICON_MAP, in the order of the dict
WIND_DIRECTIONS_ICON_MAP ==
    <<[angle |-> 0, icon |-> "arrow-down-thick"],
      [angle |-> 45, icon |-> "arrow-bottom-left-thick"],
      [angle |-> 90, icon |-> "arrow-left-thick"],
      [angle |-> 135, icon |-> "arrow-top-left-thick"],
      [angle |-> 180, icon |-> "arrow-up-thick"],
      [angle |-> 225, icon |-> "arrow-top-right-thick"],
      [angle |-> 270, icon |-> "arrow-right-thick"],
      [angle |-> 315, icon |-> "arrow-bottom-right-thick"]>>

abs(x) == IF x >= 0 THEN x ELSE -x

\* min(WIND_DIRECTIONS_ICON_MAP, key=lambda angle: abs(direction - angle)): the
\* first angle in the order of the dict with the least difference.
closest_direction(direction) ==
    LET m == WIND_DIRECTIONS_ICON_MAP
        best == {i \in DOMAIN m :
                    \A j \in DOMAIN m :
                        abs(direction - m[i].angle) <= abs(direction - m[j].angle)}
    IN  m[CHOOSE i \in best : \A j \in best : i <= j].angle

\* round(direction / 45) * 45 for direction >= 0 (direction / 45 never ends
\* in .5 for an integer direction)
round_to_45(direction) == ((2 * direction + 45) \div 90) * 45

\* WIND_DIRECTIONS_ICON_MAP.get(angle, 'compass-outline')
icon_of_angle(angle) ==
    LET m == WIND_DIRECTIONS_ICON_MAP
    IN  IF \E i \in DOMAIN m : m[i].angle = angle
        THEN m[CHOOSE i \in DOMAIN m : m[i].angle = angle].icon
        ELSE "compass-outline"

\* sensor.wind_direction_icon
wind_direction_icon(wind_direction_degrees) ==
    LET direction == wind_direction_degrees % 360
        closest == closest_direction(direction)
    IN  IF 2 * abs(direction - closest) > 45
        THEN "mdi:" \o icon_of_angle(round_to_45(direction))
        ELSE "mdi:" \o icon_of_angle(closest)

\* The degrees the icon is asked for.
DegreeArgs == (-90)..450

\* ------------------------------------------------ weather.py: the bearing
\* A string with the text s, as the direction fields hold it ("VAR", "Z").
TextOf(s) == PyVal("text", 0, 0, s)

\* The degrees key that goes with a direction key: windr and windrgr, d1windr
\* and d1windrgr.
degree_key(wind_dir_key) == wind_dir_key \o "gr"

\* The bearing without the look at the direction.
get_wind_bearing_always_degrees(d, wind_dir_key, wind_dir_degree_key) ==
    get_value(d, wind_dir_degree_key, "int")

\* KnmiWeather.get_wind_bearing.  get_value(wind_dir_key) gives the str() of
\* the field, which equals "VAR" exactly for the string VAR.
get_wind_bearing(d, wind_dir_key, wind_dir_degree_key) ==
    IF get_value(d, wind_dir_key, "str").kind = "raise"
    THEN get_value(d, wind_dir_key, "str")
    ELSE IF get_value(d, wind_dir_key, "str").val # None
            /\ d.fields[wind_dir_key] = TextOf("VAR")
    THEN Return(None)
    ELSE get_value(d, wind_dir_degree_key, "int")

\* What the direction and the degrees field may hold.
DirectionValues == {Absent, Null, TextOf("VAR"), TextOf("Z"), Number(1)}
DegreeValues == {Absent, Null, Text, IntStr(180), Number(180), DecStr(1805)}

\* ------------------------------------------------ sensor.py: the icon
\* KnmiSensor.icon for a sensor whose data_key is not temp or d0neerslag: the
\* arrow of windrgr for the sensors windrgr and windr, the icon of the sensor's
\* description otherwise.  int() of the field is not guarded.
icon(d, data_key) ==
    IF data_key \notin {"windrgr", "windr"} THEN Return(Some(Label("_icon")))
    ELSE IF get_data(d, "windrgr").kind = "raise" THEN get_data(d, "windrgr")
    ELSE IF get_data(d, "windrgr").val = None THEN Return(Some(Label("_icon")))
    ELSE IF py_int(Val(get_data(d, "windrgr").val)).kind = "raise"
         THEN py_int(Val(get_data(d, "windrgr").val))
    ELSE Return(Some(Label(wind_direction_icon(
                    Val(py_int(Val(get_data(d, "windrgr").val)).val).a))))

\* entity.testdata["liveweer"][0], the fields the readers look at (alarmtxt
\* by its first sentence)
testdata ==
    SnapshotOf("dict",
        [k \in Keys |->
            CASE k = "plaats" -> TextOf("Schagen")
              [] k = "timestamp" -> IntStr(1689469384)
              [] k = "temp" -> DecStr(181)
              [] k = "lv" -> IntStr(69)
              [] k = "windr" -> TextOf("ZW")
              [] k = "windrgr" -> IntStr(225)
              [] k = "winds" -> IntStr(6)
              [] k = "luchtd" -> DecStr(10047)
              [] k = "zicht" -> IntStr(20)
              [] k = "sup" -> Clock
              [] k = "sunder" -> Clock
              [] k = "d0tmin" -> IntStr(17)
              [] k = "d1tmax" -> IntStr(23)
              [] k = "d1tmin" -> IntStr(14)
              [] k = "d2tmax" -> IntStr(22)
              [] k = "d2tmin" -> IntStr(14)
              [] k = "d0zon" -> IntStr(57)
              [] k = "d1windr" -> TextOf("ZW")
              [] k = "d1windrgr" -> IntStr(225)
              [] k = "alarm" -> IntStr(1)
              [] k = "alarmtxt" -> TextOf("Aanvankelijk zijn er geen waarschuwingen van kracht.")])

\* The readers of the sensors and of the alarm sensor, by name.
SensorReaders == {"get_data", "icon", "is_alarm_on", "get_alarm_attributes"}
sensor_reader(op, d, key) ==
    CASE op = "get_data" -> get_data(d, key)
      [] op = "icon" -> icon(d, key)
      [] op = "is_alarm_on" -> is_alarm_on(d)
      [] op = "get_alarm_attributes" -> get_alarm_attributes(d)

\* The keys of the sensors that read the sample.
SampleKeys == DataKeys \cup {"windrgr", "windr", "temp", "lv", "winds"}
\* What the field windrgr may hold when the icon is asked for.
IconValues == {Absent, Null, Text, IntStr(225), IntStr(350), DecStr(2255)}

\* The integers the fields are drawn from.
FieldInts == {-3, 0, 1, 17, 18, 19}
\* What a field may hold.
FieldValues ==
    {Absent, Null, Text, BadRange, DecStr(175)}
    \cup {IntStr(n) : n \in FieldInts}
    \cup {Number(n) : n \in FieldInts}
    \cup {RangeStr(lo, hi) : lo \in FieldInts, hi \in FieldInts}

\* A call of a reader: the operation, the Snapshot, the key and the converter
\* it was called with, and what it gave.  The readers change nothing the next
\* call depends on, so a behaviour holds one call.
Call(op, d, key, c, out) == [op |-> op, d |-> d, key |-> key, c |-> c, out |-> out]
ReaderCalled(d, op, key, c, out) ==
    /\ call = None
    /\ call' = Some(Call(op, d, key, c, out))
    /\ UNCHANGED <<now, options, entry_state, cur, last_update_time, data,
                   refresh_interval, update_interval, last_update_success, timers,
                   unsub_refresh, inflight, notification_id, notifications, uuids,
                   http_requests, okAt, ev>>

\* coordinator.get_value(key, convert_to) on a Snapshot whose field key holds v.
GetValue(form, key, v, c) ==
    ReaderCalled(SnapshotOf(form, Fields1(key, v)), "get_value", key, c,
                 get_value(SnapshotOf(form, Fields1(key, v)), key, c))

GetValueKeys == RangeKeys \cup {"d0tmin", "temp", "alarm"}

\* A lookup called on its own.
Lookup(op, arg, found) ==
    ReaderCalled(arg, op, "", "", Return(found))

GetTemperatureDescription(h) ==
    Lookup("get_temperature_description", PyFloat(h), get_temperature_description(h))
GetAirPressureDescription(h) ==
    Lookup("get_air_pressure_description", PyFloat(h), get_air_pressure_description(h))
GetAirPressureBarometer(h) ==
    Lookup("get_air_pressure_barometer", PyFloat(h), get_air_pressure_barometer(h))
GetHumidityDescription(v) ==
    Lookup("get_humidity_description", PyInt(v), get_humidity_description(v))
GetVisibilityDescription(v) ==
    Lookup("get_visibility_description", PyInt(v), get_visibility_description(v))
GetWindforceDescription(n) ==
    Lookup("get_windforce_description", PyInt(n), get_windforce_description(n))

\* get_data(key) of a sensor on a Snapshot with the timestamp ts and the field
\* v the key is computed from.
GetData(form, key, ts, v) ==
    ReaderCalled(SnapshotOf(form, Fields2("timestamp", ts, source_key(key), v)),
                 "get_data", key, "",
                 get_data(SnapshotOf(form, Fields2("timestamp", ts, source_key(key), v)),
                          key))

\* is_on and extra_state_attributes of the alarm sensor
IsAlarmOn(form, alarm) ==
    ReaderCalled(SnapshotOf(form, Fields1("alarm", alarm)), "is_alarm_on", "", "",
                 is_alarm_on(SnapshotOf(form, Fields1("alarm", alarm))))

GetAlarmAttributes(form, alarm, ts) ==
    ReaderCalled(SnapshotOf(form, Fields3("alarm", alarm, "timestamp", ts, "alarmtxt", Text)),
                 "get_alarm_attributes", "", "",
                 get_alarm_attributes(
                    SnapshotOf(form, Fields3("alarm", alarm, "timestamp", ts, "alarmtxt", Text))))

\* is_on and extra_state_attributes of the sun sensor
IsSunUp(form, sup, sunder, up) ==
    ReaderCalled(SnapshotOf(form, Fields2("sup", sup, "sunder", sunder)),
                 "is_sun_up", "", "",
                 is_sun_up(SnapshotOf(form, Fields2("sup", sup, "sunder", sunder)), up))

GetSunAttributes(form, sup, sunder, d0zon) ==
    ReaderCalled(SnapshotOf(form, Fields3("sup", sup, "sunder", sunder, "d0zon", d0zon)),
                 "get_sun_attributes", "", "",
                 get_sun_attributes(
                    SnapshotOf(form, Fields3("sup", sup, "sunder", sunder, "d0zon", d0zon))))

\* sensor.wind_direction_icon called with an integer
WindDirectionIcon(deg) ==
    Lookup("wind_direction_icon", PyInt(deg), Some(Label(wind_direction_icon(deg))))

\* wind_bearing of the weather entity (windr) and of a forecast day (d1windr)
GetWindBearing(form, key, dir, deg) ==
    ReaderCalled(SnapshotOf(form, Fields2(key, dir, degree_key(key), deg)),
                 "get_wind_bearing", key, "",
                 get_wind_bearing(SnapshotOf(form, Fields2(key, dir, degree_key(key), deg)),
                                  key, degree_key(key)))

\* icon of a sensor on a Snapshot whose field windrgr holds v
Icon(form, key, v) ==
    ReaderCalled(SnapshotOf(form, Fields1("windrgr", v)), "icon", key, "",
                 icon(SnapshotOf(form, Fields1("windrgr", v)), key))

\* A sensor reads the sample payload.
ReadTestdata(op, key) ==
    ReaderCalled(testdata, op, key, "", sensor_reader(op, testdata, key))

NextReaders ==
    \/ \E op \in SensorReaders : \E key \in SampleKeys : ReadTestdata(op, key)
    \/ \E form \in Forms : \E key \in {"windrgr", "windr", "plaats"} :
            \E v \in IconValues : Icon(form, key, v)
    \/ \E form \in Forms : \E key \in {"windr", "d1windr"} : \E dir \in DirectionValues :
            \E deg \in DegreeValues : GetWindBearing(form, key, dir, deg)
    \/ \E deg \in DegreeArgs : WindDirectionIcon(deg)
    \/ \E form \in Forms : \E key \in DataKeys : \E ts \in ReaderValues :
            \E v \in ReaderValues : GetData(form, key, ts, v)
    \/ \E form \in Forms : \E alarm \in ReaderValues : IsAlarmOn(form, alarm)
    \/ \E form \in Forms : \E alarm \in ReaderValues : \E ts \in ReaderValues :
            GetAlarmAttributes(form, alarm, ts)
    \/ \E form \in Forms : \E sup \in ReaderValues : \E sunder \in ReaderValues :
            \E up \in BOOLEAN : IsSunUp(form, sup, sunder, up)
    \/ \E form \in Forms : \E sup \in ReaderValues : \E sunder \in ReaderValues :
            \E d0zon \in ReaderValues : GetSunAttributes(form, sup, sunder, d0zon)
    \/ \E form \in Forms : \E key \in GetValueKeys : \E v \in FieldValues :
            \E c \in Converters : GetValue(form, key, v, c)
    \/ \E h \in TemperatureArgs : GetTemperatureDescription(h)
    \/ \E h \in PressureArgs : GetAirPressureDescription(h)
    \/ \E h \in PressureArgs : GetAirPressureBarometer(h)
    \/ \E v \in HumidityArgs : GetHumidityDescription(v)
    \/ \E v \in VisibilityArgs : GetVisibilityDescription(v)
    \/ \E n \in WindforceArgs : GetWindforceDescription(n)

SpecReaders == Init /\ [][NextReaders]_vars

\* ================================================================ claims
\* The failures of the error taxonomy, by what the cycle ends with:
\* InvalidApiKey, RateLimitExceeded, UpstreamError, MalformedResponse, Timeout,
\* TransportError.
TaxonomyFailures ==
    {"InvalidApiKeyError", "RequestsExceededError", "KnmiApiException", "ApiError",
     "Timeout", "TransportError"}

\* C1: a refresh request issues an HTTP request exactly when last_update_time is
\* unset or the current time is at least 600 s after it; otherwise it issues
\* none and leaves the Snapshot and last_update_time as they were.
C1_FreshnessGate ==
    [][\A g \in Gens :
        (ev'.kind = "request" /\ ev'.g = g) =>
            /\ ev'.issued <=> (\/ last_update_time[g] = None
                               \/ now >= Val(last_update_time[g]) + 600)
            /\ ev'.issued <=> (http_requests' = http_requests + 1)
            /\ ~ev'.issued => /\ http_requests' = http_requests
                              /\ data' = data
                              /\ last_update_time' = last_update_time]_vars

\* A manual request inside the 600 s was skipped.
C1_Witness ==
    /\ ev.kind = "request"
    /\ ev.trigger = "manual"
    /\ ~ev.issued
    /\ last_update_time[ev.g] # None
    /\ now < Val(last_update_time[ev.g]) + 600

\* The instant a stored Snapshot stands for: its own timestamp, the time of its
\* fetch when the timestamp is no number, none when the record has no timestamp.
SnapshotInstant(d) ==
    IF d = None \/ Val(d).form # "dict" THEN None
    ELSE IF Val(d).rec.timestamp.k = "int" THEN Some(Val(d).rec.timestamp.v)
    ELSE IF Val(d).rec.timestamp.k = "bad" THEN Some(Val(d).rec.obs)
    ELSE None

\* C2 as stated, for a Snapshot whose record carries a timestamp: a refresh
\* request made less than 600 s after the successful fetch completed issues no
\* HTTP request.
C2_WithinGateOfFetch ==
    (/\ ev.kind = "request"
     /\ okAt[ev.g] # None
     /\ SnapshotInstant(data[ev.g]) # None
     /\ now < Val(okAt[ev.g]) + 600) => ~ev.issued

\* C2 as amended: a refresh request made less than 600 s after the instant of
\* the stored Snapshot's timestamp issues no HTTP request and leaves the
\* Snapshot as it is.
C2_WithinGateOfTimestamp ==
    [][\A g \in Gens :
        (/\ ev'.kind = "request" /\ ev'.g = g
         /\ SnapshotInstant(data[g]) # None
         /\ now < Val(SnapshotInstant(data[g])) + 600) =>
            /\ ~ev'.issued
            /\ http_requests' = http_requests
            /\ data'[g] = data[g]]_vars

\* A request after the fetch, inside the 600 s of its timestamp, was skipped.
C2_Witness ==
    /\ ev.kind = "request"
    /\ ~ev.issued
    /\ okAt[ev.g] # None
    /\ now > Val(okAt[ev.g])
    /\ SnapshotInstant(data[ev.g]) # None
    /\ now < Val(SnapshotInstant(data[ev.g])) + 600

\* C3 as stated: when the sleep of the refresh() task ends that a fetch at t0
\* created, whose record carried t0 as its timestamp and after which no other
\* fetch succeeded, an HTTP request is issued, at t0 + r + j with j in 1..60;
\* and no automatic HTTP request is issued before t0 + r.
C3_NextAutomaticFetch ==
    [][\A g \in Gens :
        /\ \A tm \in timers[g] :
            (tm \notin timers'[g] /\ tm.current /\ okAt[g] = Some(tm.by)) =>
                /\ ev'.issued
                /\ (now - (tm.by + refresh_interval[g])) \in 1..60
        /\ (/\ ev'.kind = "request" /\ ev'.g = g /\ ev'.issued
            /\ ev'.trigger \in {"timer", "interval"}
            /\ okAt[g] # None
            /\ data[g] # None
            /\ Val(data[g]).rec.timestamp = TsInt(Val(okAt[g]))) =>
                now >= Val(okAt[g]) + refresh_interval[g]]_vars

\* C4 as stated: at most one quota notice is live.
C4_AtMostOneNotice == Cardinality(notifications) <= 1

\* C5 as stated: after a successful fetch no quota notice is live and the
\* marker of the client is unset.
C5_SuccessClearsNotice ==
    (ev.kind = "response" /\ ev.result = "ok") =>
        /\ notifications = {}
        /\ notification_id[ev.g] = None

\* C6: a refresh that fails leaves last_update_time as it was; last_update_time
\* changes only in a refresh that ended with a parsed Snapshot.
C6_FailureKeepsLastUpdateTime ==
    [][\A g \in Gens :
        /\ (ev'.kind = "response" /\ ev'.g = g /\ ev'.result \in TaxonomyFailures) =>
                last_update_time'[g] = last_update_time[g]
        /\ last_update_time'[g] # last_update_time[g] =>
                (ev'.kind = "response" /\ ev'.g = g /\ ev'.result = "ok")]_vars

\* A refresh failed while last_update_time was set.
C6_Witness ==
    /\ ev.kind = "response"
    /\ ev.result \in TaxonomyFailures
    /\ last_update_time[ev.g] # None

\* C7: a refresh that fails with an error of the taxonomy leaves the Snapshot
\* as it was.
C7_FailureKeepsSnapshot ==
    [][\A g \in Gens :
        (ev'.kind = "response" /\ ev'.g = g /\ ev'.result \in TaxonomyFailures) =>
            data'[g] = data[g]]_vars

\* A refresh failed while a Snapshot was stored.
C7_Witness ==
    /\ ev.kind = "response"
    /\ ev.result \in TaxonomyFailures
    /\ data[ev.g] # None
    /\ Val(data[ev.g]).form = "dict"

\* C8 as stated: a refresh that ends with a timeout or a transport failure is
\* not reported as a failed update.
C8_TimeoutNotReported ==
    (ev.kind = "response" /\ ev.result \in {"Timeout", "TransportError"}) =>
        last_update_success[ev.g]

\* C9: the markers decide first.  A body with the key marker fails
\* InvalidApiKeyError, else one with the quota marker RequestsExceededError,
\* else one with the server marker KnmiApiException; a body with any marker
\* yields no record and no ApiError, whatever its status, Content-Type and JSON.
C9_MarkersDecideFirst ==
    (call # None /\ Val(call).resp.net = "ok") =>
        LET ms == Val(call).resp.markers
            out == Val(call).out
        IN  /\ "key" \in ms => out = Raise("InvalidApiKeyError")
            /\ ("key" \notin ms /\ "quota" \in ms) => out = Raise("RequestsExceededError")
            /\ (ms = {"server"}) => out = Raise("KnmiApiException")
            /\ ms # {} => (out.kind = "raise" /\ out.exc # "ApiError")

\* A body with the quota and the server marker, no JSON content type and status
\* 500 was classified.
C9_Witness ==
    /\ call # None
    /\ Val(call).resp.markers = {"quota", "server"}
    /\ Val(call).resp.ctype = "other"
    /\ Val(call).resp.status = 500
    /\ Val(call).out = Raise("RequestsExceededError")

\* C10: a response with the quota marker ends the cycle with
\* RequestsExceededError: the update is reported as failed, no refresh() task is
\* created and the Snapshot is not replaced.
C10_RateLimitFailsCycle ==
    [][\A g \in Gens :
        (/\ ev'.kind = "response" /\ ev'.g = g
         /\ "quota" \in ev'.markers /\ "key" \notin ev'.markers) =>
            /\ ev'.result = "RequestsExceededError"
            /\ ~last_update_success'[g]
            /\ timers'[g] = timers[g]
            /\ data'[g] = data[g]
            /\ last_update_time'[g] = last_update_time[g]]_vars

\* The quota was exceeded while a Snapshot was stored.
C10_Witness ==
    /\ ev.kind = "response"
    /\ ev.result = "RequestsExceededError"
    /\ data[ev.g] # None
    /\ ~last_update_success[ev.g]

\* C11 as stated: for a marker-free JSON 200 response whose body decodes to a
\* mapping, the client returns the first record of liveweer when there is a
\* non-empty one, and fails with ApiError when the key is absent, the list is
\* empty or the first record is empty.
C11_LiveweerOrMalformed ==
    (/\ call # None
     /\ Val(call).resp.net = "ok"
     /\ Val(call).resp.markers = {}
     /\ Val(call).resp.ctype = "json"
     /\ Val(call).resp.status = 200
     /\ Val(call).resp.json \in {"nokey", "emptylist", "emptyrec", "record"}) =>
        LET r == Val(call).resp
            out == Val(call).out
        IN  /\ r.json = "record" => out = Return(Some(r.rec))
            /\ r.json # "record" => out = Raise("ApiError")

\* C12: a marker-free response yields a record only when its Content-Type is
\* application/json, its status is 200 and its body decodes; with another
\* Content-Type, another status or an undecodable body the client fails with
\* ApiError.
C12_ParsedOnlyJson200 ==
    (/\ call # None
     /\ Val(call).resp.net = "ok"
     /\ Val(call).resp.markers = {}) =>
        LET r == Val(call).resp
            out == Val(call).out
        IN  /\ (r.ctype # "json" \/ r.status # 200 \/ r.json = "undecodable") =>
                    out = Raise("ApiError")
            /\ out.kind = "return" =>
                    (r.ctype = "json" /\ r.status = 200 /\ r.json = "record")

\* A marker-free JSON body holding a record came with status 500 and was refused.
C12_Witness ==
    /\ call # None
    /\ Val(call).resp.net = "ok"
    /\ Val(call).resp.markers = {}
    /\ Val(call).resp.ctype = "json"
    /\ Val(call).resp.status = 500
    /\ Val(call).resp.json = "record"
    /\ Val(call).out = Raise("ApiError")

\* C13 as stated: a failed first refresh ends the setup with the not-ready
\* signal; every later failed refresh leaves the entry as it was and the
\* Snapshot of the coordinator as it was.
C13_OnlyFirstFailureIsFatal ==
    [][\A g \in Gens :
        (ev'.kind = "response" /\ ev'.g = g /\ ev'.result # "ok") =>
            IF ev'.trigger = "first"
            THEN entry_state' = "setup_retry"
            ELSE /\ entry_state' = entry_state
                 /\ data'[g] = data[g]]_vars

\* C14 as stated: the forecast call either returns a list, the value at the key
\* forecast or the empty list when the key is absent, or fails with an error of
\* the taxonomy; a body with a marker fails with the error of its marker.
C14_ForecastListOrTaxonomy ==
    call # None =>
        LET r == Val(call).resp
            out == Val(call).out
        IN  /\ \/ /\ out.kind = "return"
                  /\ out.val # None
                  /\ Val(out.val).list
                  /\ Val(out.val).from = "default" <=> Val(call).fc = "absent"
               \/ /\ out.kind = "raise"
                  /\ out.exc \in TaxonomyFailures
            /\ (r.net = "ok" /\ r.markers # {}) =>
                    out = Raise(handle_error_responses(r.markers))

\* C15 as stated: get_value never raises, whatever the coordinator holds; it
\* returns None when there is no Snapshot or the key is absent.
C15_GetValueNeverRaises ==
    (call # None /\ Val(call).op = "get_value") =>
        LET d == Val(call).d
            out == Val(call).out
        IN  /\ out.kind = "return"
            /\ (d.form # "dict" \/ d.fields[Val(call).key].k = "absent") =>
                    out = Return(None)

C18_MinusTenIsErgKoud ==
    (/\ call # None
     /\ Val(call).op = "get_temperature_description"
     /\ Val(call).d = PyFloat(10 * (-10))) =>
        Val(call).out = Return(Some(Label("Erg koud")))

\* C19: the humidity and the visibility lookup give the label of a band exactly
\* for the integers v with low <= v < high; humidity 40 gives Comfortabel and
\* humidity 60 gives Hoog.
C19_HalfOpenBands ==
    /\ (call # None /\ Val(call).op = "get_humidity_description") =>
        /\ \A i \in DOMAIN HUMIDITY_MAP :
                Val(call).out = Return(Some(Label(HUMIDITY_MAP[i].label)))
                <=> (HUMIDITY_MAP[i].lo <= Val(call).d.a /\ Val(call).d.a < HUMIDITY_MAP[i].hi)
        /\ Val(call).d.a = 40 => Val(call).out = Return(Some(Label("Comfortabel")))
        /\ Val(call).d.a = 60 => Val(call).out = Return(Some(Label("Hoog")))
    /\ (call # None /\ Val(call).op = "get_visibility_description") =>
        \A i \in DOMAIN VISIBILITY_MAP :
            Val(call).out = Return(Some(Label(VISIBILITY_MAP[i].label)))
            <=> (VISIBILITY_MAP[i].lo <= Val(call).d.a /\ Val(call).d.a < VISIBILITY_MAP[i].hi)

\* The humidity lookup was called with 60 and gave Hoog.
C19_Witness ==
    /\ call # None
    /\ Val(call).op = "get_humidity_description"
    /\ Val(call).d = PyInt(60)
    /\ Val(call).out = Return(Some(Label("Hoog")))

\* C20 as stated: every humidity 0..100, every visibility 0..50, every
\* temperature -30..100 and every pressure 900..1200 gets a label, and every
\* Beaufort force 0..12 a record.
C20_LookupsTotal ==
    call # None =>
        LET op == Val(call).op
            arg == Val(call).d
            found == Val(call).out.val
        IN  /\ (op = "get_humidity_description" /\ arg.a \in 0..100) => found # None
            /\ (op = "get_visibility_description" /\ arg.a \in 0..50) => found # None
            /\ (op = "get_temperature_description"
                    /\ arg.a \in (10 * (-30))..(10 * 100)) => found # None
            /\ (op \in {"get_air_pressure_description", "get_air_pressure_barometer"}
                    /\ arg.a \in (10 * 900)..(10 * 1200)) => found # None
            /\ (op = "get_windforce_description" /\ arg.a \in 0..12) => found # None

\* C17 as stated: on a Snapshot, whatever its fields hold, no reader raises:
\* get_data of a sensor, the alarm and sun indicators and their attributes
\* return a value or None.
C17_ReadersNeverRaise ==
    (/\ call # None
     /\ Val(call).op \in {"get_data", "is_alarm_on", "is_sun_up",
                          "get_alarm_attributes", "get_sun_attributes"}
     /\ Val(call).d.form = "dict") =>
        Val(call).out.kind = "return"

\* C21 as stated: for every integer number of degrees the wind icon is the arrow
\* of a principal compass point that is nearest around the circle, never
\* another icon.
C21_NearestCompassPoint ==
    (call # None /\ Val(call).op = "wind_direction_icon") =>
        LET m == WIND_DIRECTIONS_ICON_MAP
            deg == Val(call).d.a % 360
            around(i) == IF abs(deg - m[i].angle) <= 180 THEN abs(deg - m[i].angle)
                         ELSE 360 - abs(deg - m[i].angle)
        IN  \E i \in DOMAIN m :
                /\ \A j \in DOMAIN m : around(i) <= around(j)
                /\ Val(call).out = Return(Some(Label("mdi:" \o m[i].icon)))

\* C22: the wind bearing, of the observation and of a forecast day, is None when
\* the direction field is VAR, whatever the degrees field holds; for another
\* direction it is the integer of the degrees field (180 for Z and 180), and
\* None when there is no degrees field.
C22_VarHasNoBearing ==
    (call # None /\ Val(call).op = "get_wind_bearing" /\ Val(call).d.form = "dict") =>
        LET dir == Val(call).d.fields[Val(call).key]
            deg == Val(call).d.fields[degree_key(Val(call).key)]
            out == Val(call).out
        IN  /\ dir = TextOf("VAR") => out = Return(None)
            /\ (dir # TextOf("VAR") /\ deg.k \in {"intstr", "number"}) =>
                    out = Return(Some(PyInt(deg.a)))
            /\ (dir # TextOf("VAR") /\ deg.k = "absent") => out = Return(None)
            /\ (dir = TextOf("Z") /\ deg = IntStr(180)) => out = Return(Some(PyInt(180)))

\* The direction of a forecast day was VAR while its degrees field held 180.
C22_Witness ==
    /\ call # None
    /\ Val(call).op = "get_wind_bearing"
    /\ Val(call).d.form = "dict"
    /\ Val(call).key = "d1windr"
    /\ Val(call).d.fields["d1windr"] = TextOf("VAR")
    /\ Val(call).d.fields["d1windrgr"] = IntStr(180)
    /\ Val(call).out = Return(None)

\* C23 as stated: for the pressure 1004.7 of the sample payload the lookups
\* give the band Stabiel and the barometer word Mooi weer.
C23_SampleIsStabiel ==
    (call # None /\ Val(call).d = PyFloat(10047)) =>
        /\ Val(call).op = "get_air_pressure_description" =>
                Val(call).out = Return(Some(Label("Stabiel")))
        /\ Val(call).op = "get_air_pressure_barometer" =>
                Val(call).out = Return(Some(Label("Mooi weer")))

\* C23 as amended: for the pressure 1004.7 the lookups give the band Matig laag
\* and the barometer word Veranderlijk; Stabiel and Mooi weer are given exactly
\* for the pressures whose integer part lies in 1011..1030.
C23_SampleIsMatigLaag ==
    /\ (call # None /\ Val(call).op = "get_air_pressure_description") =>
        /\ Val(call).d = PyFloat(10047) =>
                Val(call).out = Return(Some(Label("Matig laag")))
        /\ Val(call).out = Return(Some(Label("Stabiel")))
                <=> int_of_float(Val(call).d.a) \in 1011..1030
    /\ (call # None /\ Val(call).op = "get_air_pressure_barometer") =>
        /\ Val(call).d = PyFloat(10047) =>
                Val(call).out = Return(Some(Label("Veranderlijk")))
        /\ Val(call).out = Return(Some(Label("Mooi weer")))
                <=> int_of_float(Val(call).d.a) \in 1011..1030

\* The band of the pressure 1004.7 was looked up: Matig laag.
C23_Witness ==
    /\ call # None
    /\ Val(call).op = "get_air_pressure_description"
    /\ Val(call).d = PyFloat(10047)
    /\ Val(call).out = Return(Some(Label("Matig laag")))

\* C24: on the sample payload the wind icon is arrow-top-right-thick, the
\* temperature reads Aangenaam, the Beaufort force Krachtig, the humidity Hoog,
\* the alarm is on and its attributes hold the alarmtxt of the payload.
C24_SamplePayload ==
    (call # None /\ Val(call).d = testdata) =>
        LET op == Val(call).op
            key == Val(call).key
            out == Val(call).out
        IN  /\ (op = "icon" /\ key \in {"windrgr", "windr"}) =>
                    out = Return(Some(Label("mdi:arrow-top-right-thick")))
            /\ (op = "get_data" /\ key = "tempdesc") =>
                    out = Return(Some(Label("Aangenaam")))
            /\ (op = "get_data" /\ key = "winddesc") =>
                    out = Return(Some(Label("Krachtig")))
            /\ (op = "get_data" /\ key = "lvdesc") =>
                    out = Return(Some(Label("Hoog")))
            /\ op = "is_alarm_on" => out = Return(Some(PyBool(TRUE)))
            /\ op = "get_alarm_attributes" =>
                    /\ out.kind = "return"
                    /\ out.val # None
                    /\ Val(out.val).k = "attributes"
                    /\ Val(out.val).s = testdata.fields["alarmtxt"].s

\* The attributes of the alarm sensor were read from the sample payload and
\* hold its alarmtxt.
C24_Witness ==
    /\ call # None
    /\ Val(call).d = testdata
    /\ Val(call).op = "get_alarm_attributes"
    /\ Val(call).out.kind = "return"
    /\ Val(call).out.val # None
    /\ Val(Val(call).out.val).s = testdata.fields["alarmtxt"].s
    /\ testdata.fields["alarmtxt"].s # ""

\* The number of HTTP requests of the integration that await their response.
FlightCount(fl) ==
    LET pairs == UNION {{<<g, f>> : f \in fl[g]} : g \in Gens}
    IN  Cardinality(pairs)

\* C25 as stated: at most one HTTP request of the integration is in flight at
\* any time, and a request (for a refresh, from the interval timer, a refresh()
\* task or by hand, or for the forecast) that arrives while one is in flight
\* issues no HTTP request and leaves the Snapshot as it is.
C25_OneFetchInFlight ==
    [][/\ FlightCount(inflight') <= 1
       /\ (/\ ev'.kind \in {"request", "dropped", "forecast"}
           /\ ev'.result \in {"pending", "skipped", "dropped"}
           /\ FlightCount(inflight) >= 1) =>
                /\ ~ev'.issued
                /\ http_requests' = http_requests
                /\ data' = data]_vars

\* C26 as stated: a refresh that is reported as failed has replaced neither the
\* Snapshot nor last_update_time; one that is reported as successful leaves the
\* record it fetched as the Snapshot and the instant of that record as
\* last_update_time.
C26_AtomicReplacement ==
    [][\A g \in Gens :
        (ev'.kind = "response" /\ ev'.g = g) =>
            /\ ~last_update_success'[g] =>
                    /\ data'[g] = data[g]
                    /\ last_update_time'[g] = last_update_time[g]
            /\ last_update_success'[g] =>
                    /\ data'[g] # None
                    /\ Val(data'[g]).form = "dict"
                    /\ Val(data'[g]).rec.obs = now
                    /\ last_update_time'[g] = SnapshotInstant(data'[g])]_vars

\* C27 as stated: the coordinator of the entry schedules with 600 s when the
\* option refresh_interval is not set, and with the option when it is set.
C27_DefaultIs600 ==
    cur >= 1 =>
        refresh_interval[cur] = IF options = None THEN 600 ELSE Val(options)

\* C28 as stated: every refresh() task that is created sleeps until
\* last_update_time plus the interval of the coordinator built at the last
\* setup (the one after the latest options update) plus the jitter.
C28_NewIntervalAfterUpdate ==
    [][\A g \in Gens : \A tm \in timers'[g] \ timers[g] :
        (tm.at - (Val(last_update_time'[g]) + refresh_interval[cur]))
            \in RANDOM_LOW..RANDOM_HIGH]_vars

\* C29 as stated: after a fetch that gave a record, last_update_time is the
\* timestamp of the record when that is an integer, and the current time
\* otherwise; the refresh is reported as successful in both cases.
C29_TimestampOrNow ==
    [][\A g \in Gens :
        (/\ ev'.kind = "response" /\ ev'.g = g
         /\ ev'.result \in {"ok", "TimestampTypeError"}) =>
            LET ts == Val(data'[g]).rec.timestamp
            IN  /\ last_update_success'[g]
                /\ ts.k = "int" => last_update_time'[g] = Some(ts.v)
                /\ ts.k # "int" => last_update_time'[g] = Some(now)]_vars

\* C30 as stated: at most one refresh() task is pending per coordinator.
C30_OneTimerPending ==
    \A g \in Gens : Cardinality(timers[g]) <= 1

C32_TimerRefreshFetches ==
    [][\A g \in Gens :
        (/\ ev'.kind = "request" /\ ev'.g = g /\ ev'.trigger = "timer"
         /\ okAt[g] # None
         /\ data[g] # None
         /\ Val(data[g]).rec.timestamp = TsInt(Val(okAt[g]))) =>
            /\ ev'.issued
            /\ http_requests' = http_requests + 1]_vars

\* C33 as stated: a value passes the test of at most one band of its table,
\* and every band of the temperature, pressure, humidity and visibility tables
\* is returned for some value.
C33_BandsDisjoint ==
    /\ (call # None /\ Val(call).op = "get_temperature_description") =>
            Cardinality(closed_matches(TEMPERATURE_MAP, int_of_float(Val(call).d.a))) <= 1
    /\ (call # None /\ Val(call).op \in {"get_air_pressure_description",
                                         "get_air_pressure_barometer"}) =>
            Cardinality(closed_matches(AIR_PRESSURE_MAP, int_of_float(Val(call).d.a))) <= 1
    /\ (call # None /\ Val(call).op = "get_humidity_description") =>
            Cardinality(half_open_matches(HUMIDITY_MAP, Val(call).d.a)) <= 1
    /\ (call # None /\ Val(call).op = "get_visibility_description") =>
            Cardinality(half_open_matches(VISIBILITY_MAP, Val(call).d.a)) <= 1
    /\ \A i \in DOMAIN TEMPERATURE_MAP : \E h \in TemperatureArgs :
            get_temperature_description(h) = Some(Label(TEMPERATURE_MAP[i].label))
    /\ \A i \in DOMAIN AIR_PRESSURE_MAP : \E h \in PressureArgs :
            get_air_pressure_description(h) = Some(Label(AIR_PRESSURE_MAP[i].label))
    /\ \A i \in DOMAIN HUMIDITY_MAP : \E v \in HumidityArgs :
            get_humidity_description(v) = Some(Label(HUMIDITY_MAP[i].label))
    /\ \A i \in DOMAIN VISIBILITY_MAP : \E v \in VisibilityArgs :
            get_visibility_description(v) = Some(Label(VISIBILITY_MAP[i].label))

\* C34 as stated: reading the daily forecast issues no HTTP request.
C34_ReadsIssueNoRequest ==
    [][(ev'.kind = "forecast" /\ ev'.result = "pending") =>
            /\ ~ev'.issued
            /\ http_requests' = http_requests
            /\ inflight' = inflight]_vars

\* The cycles in which the client returned a record (the fetch succeeded,
\* whatever the coordinator made of the record).
FetchedRecord == {"ok", "RecordTypeError", "TimestampTypeError"}

\* C35 as stated: a response that ends with RequestsExceededError creates a
\* notice and records its id when no notice is live, and changes nothing when
\* one is; a successful fetch leaves no notice live; every other outcome of a
\* fetch, a skipped refresh and a forecast fetch leave the notices and the
\* markers as they were.
C35_NoticeFrame ==
    [][\A g \in Gens :
        (ev'.kind \in {"request", "dropped", "response", "forecast"} /\ ev'.g = g) =>
            IF ev'.kind = "response" /\ ev'.result = "RequestsExceededError"
            THEN IF notifications = {}
                 THEN \E n \in notifications' :
                        /\ notifications' = {n}
                        /\ notification_id' = [notification_id EXCEPT ![g] = Some(n)]
                 ELSE /\ notifications' = notifications
                      /\ notification_id' = notification_id
            ELSE IF ev'.kind = "response" /\ ev'.result \in FetchedRecord
            THEN notifications' = {}
            ELSE /\ notifications' = notifications
                 /\ notification_id' = notification_id]_vars

\* C36 as stated: the HTTP request of the setup that follows an options update
\* is not issued less than 600 s after the last_update_time the coordinator of
\* the entry held before the update.
C36_ReloadKeepsGate ==
    [][(/\ cur' = cur + 1
        /\ entry_state = "loaded"
        /\ last_update_time[cur] # None
        /\ http_requests' = http_requests + 1) =>
            now >= Val(last_update_time[cur]) + 600]_vars

\* C37 as stated: an HTTP request for a refresh is issued only by the
\* coordinator of the entry, never by one that an unload or a reload replaced.
C37_ReplacedCoordinatorIsQuiet ==
    [][(ev'.kind = "request" /\ ev'.issued) => ev'.g = cur']_vars

\* C38 as stated: last_update_time of a coordinator never moves to an earlier
\* instant.
C38_LastUpdateTimeMonotonic ==
    [][\A g \in Gens :
        last_update_time[g] # None =>
            /\ last_update_time'[g] # None
            /\ Val(last_update_time'[g]) >= Val(last_update_time[g])]_vars

\* C39 as stated: the setup form creates an entry exactly when the test fetch
\* returned a weather record; InvalidApiKeyError is reported as the form error
\* api_key, RequestsExceededError as daily_limit, a timeout and a transport
\* failure as general, without an entry and without an exception leaving the
\* step.
C39_SetupValidation ==
    (call # None /\ Val(call).op = "async_step_user") =>
        LET fetched == api_wrapper(Val(call).resp)
            out == Val(call).out
        IN  /\ out.kind = "return"
            /\ out = Return(Some(FlowResult("create_entry", "")))
                    <=> (fetched.kind = "return" /\ fetched.val # None)
            /\ fetched = Raise("InvalidApiKeyError") =>
                    (out.val # None /\ Val(out.val).errors = "api_key")
            /\ fetched = Raise("RequestsExceededError") =>
                    (out.val # None /\ Val(out.val).errors = "daily_limit")
            /\ Val(call).resp.net \in {"timeout", "client_error"} =>
                    (out.val # None /\ Val(out.val).errors = "general")

====
